---- MODULE Spec2Model ----
(***************************************************************************)
(* Incident-resolution backend (app.py): the sentences table, the helpers  *)
(* embed_text, embed_and_store, find_similar_problems(_v2) and the /upload, *)
(* /search and /search-v2 handlers.                                         *)
(*                                                                          *)
(* Texts are sequences of tokens, so that str.strip() and truthiness are   *)
(* computed.  Similarities are in hundredths (0.65 is 65); the embedding   *)
(* table uses vectors whose cosines are exact in hundredths.  Requests are *)
(* handled by concurrent threads on the one shared autocommit connection;  *)
(* a step of a thread is local work up to and including one database       *)
(* round trip (a search's SELECTs, or an INSERT).                           *)
(***************************************************************************)
EXTENDS Integers, Sequences, FiniteSets, TLC

\* ------------------------------------------------------------------ bounds
MaxStore == 2        \* rows of the sentences table
MaxTopK == 2         \* largest top_k of a direct find_similar_problems call

\* ------------------------------------------------------- program constants
DefaultThreshold == 65
DefaultTopK == 5

\* ------------------------------------------------------------------- texts
\* The characters str.strip() removes (str.isspace); those without an escape
\* are named by code point.
Whitespace ==
  { " ", "\t", "\n", "\r", "\f", "U+000B", "U+001C", "U+001D", "U+001E", "U+001F",
    "U+0085", "U+00A0", "U+1680", "U+2000", "U+2001", "U+2002", "U+2003",
    "U+2004", "U+2005", "U+2006", "U+2007", "U+2008", "U+2009", "U+200A",
    "U+2028", "U+2029", "U+202F", "U+205F", "U+3000" }
EmptyText == << >>
BlankText == <<" ">>
NbspText == <<"\r", "U+00A0">>
ServerDown == <<"server", " ", "down">>
ServerCrash == <<"server", " ", "crash">>
Rebooted == <<"rebooted">>
None == <<"None">>
Null == <<"NULL">>

Descriptions == {EmptyText, BlankText, NbspText, ServerDown, ServerCrash}
Pair(description, resolved) == [description |-> description, resolved |-> resolved]
Pairs ==
  { Pair(EmptyText, Rebooted), Pair(BlankText, Rebooted), Pair(NbspText, Rebooted),
    Pair(ServerDown, Rebooted), Pair(ServerDown, EmptyText),
    Pair(ServerCrash, Rebooted), Pair(ServerCrash, EmptyText) }
\* the uploaded spreadsheets, as their rows after lines 218-219
Batches ==
  { <<Pair(ServerDown, Rebooted)>>,
    <<Pair(ServerDown, Rebooted), Pair(ServerDown, Rebooted)>>,
    <<Pair(NbspText, Rebooted), Pair(ServerCrash, EmptyText)>>,
    <<Pair(EmptyText, Rebooted), Pair(BlankText, Rebooted)>> }

Min(a, b) == IF a <= b THEN a ELSE b

RECURSIVE lstrip(_)
lstrip(s) ==
  IF s = << >> THEN << >>
  ELSE IF Head(s) \in Whitespace THEN lstrip(Tail(s)) ELSE s

RECURSIVE rstrip(_)
rstrip(s) ==
  IF s = << >> THEN << >>
  ELSE IF s[Len(s)] \in Whitespace THEN rstrip(SubSeq(s, 1, Len(s) - 1)) ELSE s

\* str.strip()
strip(s) == rstrip(lstrip(s))

\* Python truthiness of a str: "not s" is s = ""
Truthy(s) == s # << >>

\* ---------------------------------------------------------------- vectors
\* model.encode: the black-box text -> vector capability (dimension 2 here).
encode(text) ==
  CASE text = ServerDown -> <<3, 4>>
    [] text = ServerCrash -> <<4, 3>>
    [] OTHER -> <<-4, 3>>

Dot(a, b) == a[1] * b[1] + a[2] * b[2]
Norm(a) == CHOOSE n \in 0..Dot(a, a) : n * n = Dot(a, a)

\* 1 - (embedding <=> q), in hundredths
cosine_similarity(a, b) == (100 * Dot(a, b)) \div (Norm(a) * Norm(b))

\* ------------------------------------------------------------------ state
Threads == {"t1", "t2"}

VARIABLES
  connection,   \* FALSE: the module-level connection is None
  model,        \* FALSE: the module-level model is None
  sentences,    \* the sentences table, in insertion (id) order
  pc,           \* per thread: "idle"; in upload_file's loop "search" (at the
                \* head of an iteration) or "store" (before embed_and_store)
  req,          \* per thread: the request it handles, NoReq when idle
  idx,          \* per thread, upload_file: the row of df.iterrows() it is at
  results,      \* per thread, upload_file: its results list
  hist,         \* per thread (history of its request): the rows of the table
                \* when it started, for each embed_and_store whether its
                \* INSERT succeeded, and whether a call failed without
                \* ending the request
  calls,        \* the collaborator calls the last step made, in order
  last,         \* the exchange the last step completed (request, response and
                \* the history of the request), NoExchange if it completed none
  prev          \* direct calls of the search function: <<last, calls>> of the
                \* call before the last

vars ==
  <<connection, model, sentences, pc, req, idx, results, hist, calls, last, prev>>

NoReq == [op |-> "none"]
NoResp == [status |-> 0]
NoHist == [base |-> 0, inserted |-> << >>, failed |-> FALSE]
Exchange(r, response, h) == [req |-> r, resp |-> response, hist |-> h]
NoExchange == Exchange(NoReq, NoResp, NoHist)

Call(fn, ok) == [fn |-> fn, ok |-> ok]

\* Which collaborator calls raise in one step: enc (model.encode in the
\* search), primary and fallback (the two SELECTs), enc_store (model.encode
\* in embed_and_store), insert (the INSERT).  A flag of a call that is not
\* reached is FALSE.
NoFault ==
  [enc |-> FALSE, primary |-> FALSE, fallback |-> FALSE,
   enc_store |-> FALSE, insert |-> FALSE]
SearchFaults ==
  { NoFault,
    [NoFault EXCEPT !.enc = TRUE],
    [NoFault EXCEPT !.primary = TRUE],
    [NoFault EXCEPT !.primary = TRUE, !.fallback = TRUE] }
StoreFaults ==
  { NoFault, [NoFault EXCEPT !.enc_store = TRUE], [NoFault EXCEPT !.insert = TRUE] }

\* ------------------------------------------------------------ Record Store
Record(description, resolved) ==
  [text |-> description, embedding |-> encode(description), resolved_solution |-> resolved]

\* "WHERE text IS NOT NULL", and in v2 "AND text != ''"
Where(rec, variant) ==
  IF variant = "v2" THEN rec.text # Null /\ rec.text # EmptyText
  ELSE rec.text # Null

\* ORDER BY cosine_similarity DESC: every order of the selected rows with
\* the similarity descending; the query names no second sort key, so rows
\* of equal similarity come in any order.
Orderings(tbl, qemb, variant) ==
  LET S == {i \in 1..Len(tbl) : Where(tbl[i], variant)}
      n == Cardinality(S)
      sim == [i \in S |-> cosine_similarity(tbl[i].embedding, qemb)]
  IN  { o \in [1..n -> S] :
          \A a, b \in 1..n : a < b => (o[a] # o[b] /\ sim[o[a]] >= sim[o[b]]) }

Row(rec, qemb) ==
  [text |-> rec.text,
   resolved_solution |-> rec.resolved_solution,
   cosine_similarity |-> cosine_similarity(rec.embedding, qemb)]

\* Mutant of QueryRows: the LIMIT is dropped.
QueryRowsNoLimit(tbl, qemb, top_k, variant) ==
  { [j \in 1..Len(o) |-> Row(tbl[o[j]], qemb)] :
    o \in Orderings(tbl, qemb, variant) }

\* The SELECT ... ORDER BY ... LIMIT top_k: the row lists it may return.
QueryRows(tbl, qemb, top_k, variant) ==
  { [j \in 1..Min(top_k, Len(o)) |-> Row(tbl[o[j]], qemb)] :
    o \in Orderings(tbl, qemb, variant) }

\* the loop "for text, resolved, sim in rows: if sim >= similarity_threshold"
Matches(rows, similarity_threshold) ==
  LET kept == SelectSeq(rows, LAMBDA r : r.cosine_similarity >= similarity_threshold)
  IN  [j \in 1..Len(kept) |->
         [matched_text |-> kept[j].text,
          solution |-> kept[j].resolved_solution,
          similarity |-> kept[j].cosine_similarity]]

\* ----------------------------------------------------------------- helpers
Has(log, c) == \E i \in 1..Len(log) : log[i] = c
\* a call failed that no fallback made up for
Failed(log) ==
  \/ Has(log, Call("embed_text", FALSE))
  \/ Has(log, Call("select_fallback", FALSE))
  \/ Has(log, Call("insert", FALSE))

\* embed_text raises when the model is None or model.encode raises
embed_raises(enc) == ~model \/ enc

\* find_similar_problems; rows is what the SELECT that succeeds returns.
find_similar_problems(new_sentence, similarity_threshold, top_k, f, rows) ==
  IF ~Truthy(new_sentence)
    THEN [raised |-> FALSE, matches |-> << >>, calls |-> << >>]
  ELSE IF embed_raises(f.enc)
    THEN [raised |-> TRUE, matches |-> << >>, calls |-> <<Call("embed_text", FALSE)>>]
  ELSE IF ~f.primary
    THEN [raised |-> FALSE, matches |-> Matches(rows, similarity_threshold),
          calls |-> <<Call("embed_text", TRUE), Call("select", TRUE)>>]
  ELSE IF ~f.fallback
    THEN [raised |-> FALSE, matches |-> Matches(rows, similarity_threshold),
          calls |-> <<Call("embed_text", TRUE), Call("select", FALSE),
                      Call("select_fallback", TRUE)>>]
  ELSE [raised |-> FALSE, matches |-> << >>,
        calls |-> <<Call("embed_text", TRUE), Call("select", FALSE),
                    Call("select_fallback", FALSE)>>]

\* find_similar_problems_v2: one SELECT, no fallback
find_similar_problems_v2(new_sentence, similarity_threshold, top_k, f, rows) ==
  IF ~Truthy(new_sentence)
    THEN [raised |-> FALSE, matches |-> << >>, calls |-> << >>]
  ELSE IF embed_raises(f.enc)
    THEN [raised |-> TRUE, matches |-> << >>, calls |-> <<Call("embed_text", FALSE)>>]
  ELSE IF ~f.primary
    THEN [raised |-> FALSE, matches |-> Matches(rows, similarity_threshold),
          calls |-> <<Call("embed_text", TRUE), Call("select", TRUE)>>]
  ELSE [raised |-> FALSE, matches |-> << >>,
        calls |-> <<Call("embed_text", TRUE), Call("select", FALSE)>>]

\* Mutant of embed_and_store: a pair without a resolution is not stored.
embed_and_store_needs_resolution(tbl, description, resolved, f) ==
  IF ~Truthy(description) \/ ~Truthy(resolved)
    THEN [table |-> tbl, calls |-> << >>]
  ELSE IF embed_raises(f.enc_store)
    THEN [table |-> tbl, calls |-> <<Call("embed_text", FALSE)>>]
  ELSE IF f.insert
    THEN [table |-> tbl, calls |-> <<Call("embed_text", TRUE), Call("insert", FALSE)>>]
  ELSE [table |-> Append(tbl, Record(description, resolved)),
        calls |-> <<Call("embed_text", TRUE), Call("insert", TRUE)>>]

\* embed_and_store: the table after it, and its calls; it raises nothing.
embed_and_store(tbl, description, resolved, f) ==
  IF ~Truthy(description)
    THEN [table |-> tbl, calls |-> << >>]
  ELSE IF embed_raises(f.enc_store)
    THEN [table |-> tbl, calls |-> <<Call("embed_text", FALSE)>>]
  ELSE IF f.insert
    THEN [table |-> tbl, calls |-> <<Call("embed_text", TRUE), Call("insert", FALSE)>>]
  ELSE [table |-> Append(tbl, Record(description, resolved)),
        calls |-> <<Call("embed_text", TRUE), Call("insert", TRUE)>>]

best_solution(matches) == IF matches # << >> THEN matches[1].solution ELSE None

\* ------------------------------------------------------------------- Init
Init ==
  /\ connection \in BOOLEAN
  /\ model \in BOOLEAN
  /\ sentences = << >>
  /\ pc = [t \in Threads |-> "idle"]
  /\ req = [t \in Threads |-> NoReq]
  /\ idx = [t \in Threads |-> 0]
  /\ results = [t \in Threads |-> << >>]
  /\ hist = [t \in Threads |-> NoHist]
  /\ calls = << >>
  /\ last = NoExchange
  /\ prev = <<NoExchange, << >> >>

\* ------------------------------------------------------------ HTTP layer
Ok(body) == [status |-> 200, body |-> body]
Err(code, msg) == [status |-> code, body |-> [error |-> msg]]
embed_error == IF ~model THEN "Embedding model not loaded" ELSE "encode failed"

Files ==
  { [kind |-> k, rows |-> << >>] :
      k \in {"missing", "empty_filename", "unreadable", "bad_columns"} }
  \cup { [kind |-> "ok", rows |-> b] : b \in Batches }

\* all characters are whitespace (the empty text included)
IsBlank(s) == \A i \in 1..Len(s) : s[i] \in Whitespace
NonBlank(rows) == SelectSeq(rows, LAMBDA p : ~IsBlank(p.description))

\* The rows the uploads in progress may still insert (MaxStore caps the
\* table, so a new upload is taken only if all of them fit).
RECURSIVE Pending(_)
Pending(S) ==
  IF S = {} THEN 0
  ELSE LET u == CHOOSE x \in S : TRUE
       IN  (IF pc[u] \in {"search", "store"}
              THEN Len(NonBlank(SubSeq(req[u].file.rows, idx[u],
                                       Len(req[u].file.rows))))
              ELSE 0)
           + Pending(S \ {u})

\* Mutant of row_is_blank: the strip() is dropped.
row_is_blank_no_strip(short_description) == ~Truthy(short_description)

\* "if not short_description.strip(): continue"
row_is_blank(short_description) == ~Truthy(strip(short_description))

\* the response of upload_file when it returns before its loop, NoResp else
upload_checks(file, cursor_raises) ==
  IF ~connection THEN Err(500, "DB connection not available")
  ELSE IF file.kind = "missing" THEN Err(400, "No file uploaded")
  ELSE IF file.kind = "empty_filename" THEN Err(400, "Empty filename")
  ELSE IF file.kind = "unreadable" THEN Err(500, "read_excel failed")
  ELSE IF file.kind = "bad_columns"
    THEN Err(400, "Excel must have 'Short description' and 'Resolved' columns.")
  ELSE IF cursor_raises THEN Err(500, "connection already closed")
  ELSE NoResp

\* POST /upload up to the row loop: the checks of the connection, the file
\* and its columns, and the opening of the cursor.
upload_file(t) ==
  /\ pc[t] = "idle"
  /\ \E file \in Files, cursor_raises \in BOOLEAN :
       LET r == [op |-> "upload", file |-> file]
           early == upload_checks(file, cursor_raises)
           h == [NoHist EXCEPT !.base = Len(sentences)]
       IN  /\ cursor_raises => (connection /\ file.kind = "ok")
           /\ Len(sentences) + Pending(Threads) + Len(NonBlank(file.rows)) <= MaxStore
           /\ calls' = IF connection /\ file.kind = "ok"
                         THEN <<Call("cursor", ~cursor_raises)>> ELSE << >>
           /\ IF early # NoResp
                THEN /\ last' = Exchange(r, early, h)
                     /\ UNCHANGED <<pc, req, idx, hist>>
              ELSE /\ pc' = [pc EXCEPT ![t] = "search"]
                   /\ req' = [req EXCEPT ![t] = r]
                   /\ idx' = [idx EXCEPT ![t] = 1]
                   /\ hist' = [hist EXCEPT ![t] = h]
                   /\ last' = NoExchange
  /\ UNCHANGED <<connection, model, sentences, results, prev>>

\* the entry of results for a searched description
Entry(short_description, matches) ==
  [description |-> short_description,
   solution |-> best_solution(matches),
   matches |-> matches]

\* Mutant of upload_row_search: the search sees the pair's own record.
upload_row_search_own(t) ==
  /\ pc[t] = "search"
  /\ idx[t] <= Len(req[t].file.rows)
  /\ LET short_description == req[t].file.rows[idx[t]].description
         resolved_solution == req[t].file.rows[idx[t]].resolved
     IN  IF row_is_blank(short_description)
           THEN /\ idx' = [idx EXCEPT ![t] = idx[t] + 1]
                /\ calls' = << >>
                /\ last' = NoExchange
                /\ UNCHANGED <<pc, req, results, hist>>
         ELSE \E rows \in QueryRows(Append(sentences,
                                      Record(short_description, resolved_solution)),
                                    encode(short_description), DefaultTopK, "v1") :
              \E f \in SearchFaults :
                LET found == find_similar_problems(short_description,
                                 DefaultThreshold, DefaultTopK, f, rows)
                IN  /\ calls' = found.calls
                    /\ IF found.raised
                         THEN /\ last' = Exchange(req[t], Err(500, embed_error), hist[t])
                              /\ pc' = [pc EXCEPT ![t] = "idle"]
                              /\ req' = [req EXCEPT ![t] = NoReq]
                              /\ idx' = [idx EXCEPT ![t] = 0]
                              /\ results' = [results EXCEPT ![t] = << >>]
                              /\ hist' = [hist EXCEPT ![t] = NoHist]
                       ELSE /\ results' = [results EXCEPT ![t] =
                                  Append(results[t], Entry(short_description, found.matches))]
                            /\ hist' = [hist EXCEPT ![t].failed = @ \/ Failed(found.calls)]
                            /\ pc' = [pc EXCEPT ![t] = "store"]
                            /\ last' = NoExchange
                            /\ UNCHANGED <<req, idx>>
  /\ UNCHANGED <<connection, model, sentences, prev>>

\* The head of one iteration of "for _, row in df.iterrows()", lines 218-232:
\* skip a blank description, else search (embed_text and the SELECTs) and
\* append the result entry.  An exception of the search ends the request.
upload_row_search(t) ==
  /\ pc[t] = "search"
  /\ idx[t] <= Len(req[t].file.rows)
  /\ LET short_description == req[t].file.rows[idx[t]].description
     IN  IF row_is_blank(short_description)
           THEN /\ idx' = [idx EXCEPT ![t] = idx[t] + 1]
                /\ calls' = << >>
                /\ last' = NoExchange
                /\ UNCHANGED <<pc, req, results, hist>>
         ELSE \E rows \in QueryRows(sentences, encode(short_description),
                                    DefaultTopK, "v1") :
              \E f \in SearchFaults :
                LET found == find_similar_problems(short_description,
                                 DefaultThreshold, DefaultTopK, f, rows)
                IN  /\ calls' = found.calls
                    /\ IF found.raised
                         THEN /\ last' = Exchange(req[t], Err(500, embed_error), hist[t])
                              /\ pc' = [pc EXCEPT ![t] = "idle"]
                              /\ req' = [req EXCEPT ![t] = NoReq]
                              /\ idx' = [idx EXCEPT ![t] = 0]
                              /\ results' = [results EXCEPT ![t] = << >>]
                              /\ hist' = [hist EXCEPT ![t] = NoHist]
                       ELSE /\ results' = [results EXCEPT ![t] =
                                  Append(results[t], Entry(short_description, found.matches))]
                            /\ hist' = [hist EXCEPT ![t].failed = @ \/ Failed(found.calls)]
                            /\ pc' = [pc EXCEPT ![t] = "store"]
                            /\ last' = NoExchange
                            /\ UNCHANGED <<req, idx>>
  /\ UNCHANGED <<connection, model, sentences, prev>>

\* The rest of the iteration, line 235: embed_and_store (embed_text and the
\* INSERT), which raises nothing; the loop goes on to the next row.
upload_row_store(t) ==
  /\ pc[t] = "store"
  /\ \E f \in StoreFaults :
       LET p == req[t].file.rows[idx[t]]
           stored == embed_and_store(sentences, p.description, p.resolved, f)
       IN  /\ sentences' = stored.table
           /\ calls' = stored.calls
           /\ hist' = [hist EXCEPT
                         ![t].inserted = Append(@, Has(stored.calls, Call("insert", TRUE))),
                         ![t].failed = @ \/ Failed(stored.calls)]
  /\ idx' = [idx EXCEPT ![t] = idx[t] + 1]
  /\ pc' = [pc EXCEPT ![t] = "search"]
  /\ last' = NoExchange
  /\ UNCHANGED <<connection, model, req, results, prev>>

\* "return jsonify({"results": results}), 200" after the last row
upload_return(t) ==
  /\ pc[t] = "search"
  /\ idx[t] > Len(req[t].file.rows)
  /\ last' = Exchange(req[t], Ok([results |-> results[t]]), hist[t])
  /\ calls' = << >>
  /\ pc' = [pc EXCEPT ![t] = "idle"]
  /\ req' = [req EXCEPT ![t] = NoReq]
  /\ idx' = [idx EXCEPT ![t] = 0]
  /\ results' = [results EXCEPT ![t] = << >>]
  /\ hist' = [hist EXCEPT ![t] = NoHist]
  /\ UNCHANGED <<connection, model, sentences, prev>>

Queries == {None, EmptyText, BlankText, ServerDown}

\* the response of a search handler that does not reach its search, NoResp
\* else
search_checks(q, cursor_raises) ==
  IF ~connection THEN Err(500, "DB connection not available")
  ELSE IF q = None \/ ~Truthy(q) THEN Err(400, "Query text required")
  ELSE IF cursor_raises THEN Err(500, "connection already closed")
  ELSE NoResp

\* Mutant of search_problem: the query is stored as a new record.
search_problem_storing(t) ==
  /\ pc[t] = "idle"
  /\ connection
  /\ Len(sentences) + Pending(Threads) < MaxStore
  /\ \E q \in Queries \ {None, EmptyText} :
     \E rows \in QueryRows(sentences, encode(q), DefaultTopK, "v1") :
       LET found == find_similar_problems(q, DefaultThreshold, DefaultTopK,
                                          NoFault, rows)
       IN  /\ calls' = <<Call("cursor", TRUE)>> \o found.calls
           /\ last' = Exchange([op |-> "search", query |-> q],
                        IF found.raised
                          THEN Err(500, embed_error)
                          ELSE Ok([query |-> q,
                                   solution |-> best_solution(found.matches),
                                   matches |-> found.matches]),
                        [NoHist EXCEPT !.base = Len(sentences)])
           /\ sentences' = embed_and_store(sentences, q, EmptyText, NoFault).table
  /\ UNCHANGED <<connection, model, pc, req, idx, results, hist, prev>>

\* POST /search
search_problem(t) ==
  /\ pc[t] = "idle"
  /\ \E q \in Queries, cursor_raises \in BOOLEAN :
       LET r == [op |-> "search", query |-> q]
           early == search_checks(q, cursor_raises)
           h == [NoHist EXCEPT !.base = Len(sentences)]
       IN  /\ cursor_raises => (connection /\ q # None /\ Truthy(q))
           /\ IF early # NoResp
                THEN /\ last' = Exchange(r, early, h)
                     /\ calls' = IF cursor_raises
                                   THEN <<Call("cursor", FALSE)>> ELSE << >>
              ELSE \E rows \in QueryRows(sentences, encode(q), DefaultTopK, "v1") :
                   \E f \in SearchFaults :
                     LET found == find_similar_problems(q, DefaultThreshold,
                                                        DefaultTopK, f, rows)
                     IN  /\ calls' = <<Call("cursor", TRUE)>> \o found.calls
                         /\ last' = Exchange(r,
                                      IF found.raised
                                        THEN Err(500, embed_error)
                                        ELSE Ok([query |-> q,
                                                 solution |-> best_solution(found.matches),
                                                 matches |-> found.matches]),
                                      h)
  /\ UNCHANGED <<connection, model, sentences, pc, req, idx, results, hist, prev>>

\* POST /search-v2
search_problem_v2(t) ==
  /\ pc[t] = "idle"
  /\ \E q \in Queries, cursor_raises \in BOOLEAN :
       LET r == [op |-> "search_v2", query |-> q]
           early == search_checks(q, cursor_raises)
           h == [NoHist EXCEPT !.base = Len(sentences)]
       IN  /\ cursor_raises => (connection /\ q # None /\ Truthy(q))
           /\ IF early # NoResp
                THEN /\ last' = Exchange(r, early, h)
                     /\ calls' = IF cursor_raises
                                   THEN <<Call("cursor", FALSE)>> ELSE << >>
              ELSE \E rows \in QueryRows(sentences, encode(q), DefaultTopK, "v2") :
                   \E f \in {g \in SearchFaults : ~g.fallback} :
                     LET found == find_similar_problems_v2(q, DefaultThreshold,
                                                           DefaultTopK, f, rows)
                     IN  /\ calls' = <<Call("cursor", TRUE)>> \o found.calls
                         /\ last' = Exchange(r,
                                      IF found.raised
                                        THEN Err(500, embed_error)
                                        ELSE Ok([query |-> q,
                                                 matches |-> found.matches,
                                                 method |-> "v2"]),
                                      h)
  /\ UNCHANGED <<connection, model, sentences, pc, req, idx, results, hist, prev>>

\* The request threads of the server run their handlers concurrently on the
\* shared connection; a step is one thread's, the others stand where they
\* are.  A step holds at most one read of the table (the SELECT that
\* succeeds) or one write (the INSERT).
Next ==
  \E t \in Threads :
    \/ upload_file(t)
    \/ upload_row_search(t)
    \/ upload_row_store(t)
    \/ upload_return(t)
    \/ search_problem(t)
    \/ search_problem_v2(t)

Spec == Init /\ [][Next]_vars

\* ------------------------------------------- the search function, directly
Thresholds == {0, 65, 97}
TopKs == 0..MaxTopK
SearchQueries == {EmptyText, BlankText, ServerDown}
StoredRecords ==
  { Record(p.description, p.resolved) :
      p \in {x \in Pairs : ~IsBlank(x.description)} }
Stores == UNION { [1..n -> StoredRecords] : n \in 0..MaxStore }
Caller == CHOOSE t \in Threads : TRUE

\* A caller holding a store, a query and a top_k, about to search.
InitSearch ==
  /\ connection = TRUE
  /\ model = TRUE
  /\ sentences \in Stores
  /\ pc = [t \in Threads |-> "idle"]
  /\ \E q \in SearchQueries, k \in TopKs :
       req = [t \in Threads |->
                IF t = Caller
                  THEN [op |-> "find_similar_problems", query |-> q,
                        threshold |-> DefaultThreshold, top_k |-> k]
                  ELSE NoReq]
  /\ idx = [t \in Threads |-> 0]
  /\ results = [t \in Threads |-> << >>]
  /\ hist = [t \in Threads |-> NoHist]
  /\ calls = << >>
  /\ last = NoExchange
  /\ prev = <<NoExchange, << >> >>

\* One call find_similar_problems(cursor, query, threshold, top_k).
call_find_similar_problems ==
  /\ req[Caller].op = "find_similar_problems"
  /\ \E rows \in QueryRows(sentences, encode(req[Caller].query),
                           req[Caller].top_k, "v1") :
     \E th \in Thresholds :
     \E f \in SearchFaults :
       LET r == [req[Caller] EXCEPT !.threshold = th]
           found == find_similar_problems(r.query, th, r.top_k, f, rows)
       IN  /\ calls' = found.calls
           /\ last' = Exchange(r,
                        [status |-> IF found.raised THEN "raised" ELSE "returned",
                         body |-> [matches |-> found.matches]],
                        [NoHist EXCEPT !.base = Len(sentences)])
  /\ prev' = <<last, calls>>
  /\ UNCHANGED <<connection, model, sentences, pc, req, idx, results, hist>>

NextSearch == call_find_similar_problems

SpecSearch == InitSearch /\ [][NextSearch]_vars

\* ================================================================= claims
IsPrefix(a, b) == Len(a) <= Len(b) /\ SubSeq(b, 1, Len(a)) = a
\* the last step completed an upload that went through its loop
UploadDone ==
  last.req.op = "upload" /\ last.req.file.kind = "ok" /\ last.resp.status = 200
AtRow(t) == pc[t] = "search" /\ idx[t] <= Len(req[t].file.rows)
\* the step is one of thread t
Moved(t) ==
  <<pc[t], req[t], idx[t], results[t], hist[t]>>
    # <<pc'[t], req'[t], idx'[t], results'[t], hist'[t]>>
SearchOutcomes(tbl, text) ==
  { Matches(rows, DefaultThreshold) :
      rows \in QueryRows(tbl, encode(text), DefaultTopK, "v1") }
RecordOf(p) == Record(p.description, p.resolved)
ExamplePair == Pair(ServerDown, Rebooted)
ExampleMatch == [matched_text |-> ServerDown, solution |-> Rebooted, similarity |-> 100]

\* C1 as stated: in a finished upload in which no embedding, search or
\* insert failed, the i-th non-blank pair's matches are a search result over
\* exactly the table as it was before the batch plus the records of the
\* non-blank pairs before it; so uploading the example batch into an empty
\* table reports no match for the first pair and "server down" for the
\* second.
C1_ExactlyBatchRecords ==
  (UploadDone /\ ~last.hist.failed) =>
    LET nb == NonBlank(last.req.file.rows)
        n == Len(nb)
        b == last.hist.base
        out == last.resp.body.results
    IN  /\ Len(out) = n
        /\ \A i \in 1..n :
             out[i].matches
               \in SearchOutcomes(SubSeq(sentences, 1, b)
                                    \o [j \in 1..(i - 1) |-> RecordOf(nb[j])],
                                  nb[i].description)
        /\ (b = 0 /\ last.req.file.rows = <<ExamplePair, ExamplePair>>)
             => (out[1].matches = << >> /\ out[2].matches = <<ExampleMatch>>)

\* C1: in a finished upload the result has one entry per non-blank pair, in
\* input order, and the i-th entry's matches are a search result over the
\* table as it was at some moment after the embed_and_store of pair i-1 and
\* before that of pair i (or the empty list of a search whose SELECTs both
\* failed): over the rows from before the batch, the earlier pairs of the
\* batch whose INSERT succeeded and whatever other requests committed until
\* then, and not over the pair's own record, which is in the table after
\* the rows its search saw.  When no call failed and nothing else was
\* committed, uploading the example batch into an empty table reports no
\* match for the first pair and "server down" for the second.
C1_BatchOrder ==
  UploadDone =>
    LET nb == NonBlank(last.req.file.rows)
        n == Len(nb)
        b == last.hist.base
        ins == last.hist.inserted
        out == last.resp.body.results
    IN  /\ Len(out) = n
        /\ Len(ins) = n
        /\ \E pos \in [1..n -> b..Len(sentences)] :
           \E seen \in [1..n -> b..Len(sentences)] :
             \A i \in 1..n :
               /\ out[i].description = nb[i].description
               /\ i > 1 => pos[i - 1] <= seen[i]
               /\ IF ins[i]
                    THEN seen[i] < pos[i] /\ sentences[pos[i]] = RecordOf(nb[i])
                    ELSE seen[i] <= pos[i]
               /\ \/ out[i].matches
                        \in SearchOutcomes(SubSeq(sentences, 1, seen[i]),
                                           nb[i].description)
                  \/ last.hist.failed /\ out[i].matches = << >>
        /\ (/\ b = 0
            /\ last.req.file.rows = <<ExamplePair, ExamplePair>>
            /\ ~last.hist.failed
            /\ Len(sentences) = 2)
             => (out[1].matches = << >> /\ out[2].matches = <<ExampleMatch>>)

C1_Witness ==
  /\ UploadDone
  /\ ~last.hist.failed
  /\ last.req.file.rows = <<ExamplePair, ExamplePair>>
  /\ Len(sentences) = 2
  /\ last.resp.body.results[1].matches = << >>
  /\ last.resp.body.results[2].matches = <<ExampleMatch>>

\* The store step of C2: the record is appended after the pair's search.
C2_RowInserts ==
  [][ \A t \in Threads :
        (pc[t] = "store" /\ pc'[t] = "search" /\ ~Failed(calls'))
        => LET p == req[t].file.rows[idx[t]]
           IN  /\ sentences' = Append(sentences, RecordOf(p))
               /\ calls' = <<Call("embed_text", TRUE), Call("insert", TRUE)>>
               /\ results[t] # << >>
               /\ results[t][Len(results[t])].description = p.description
               /\ hist'[t].inserted = Append(hist[t].inserted, TRUE) ]_vars

\* The finished upload of C2: one insert per non-blank pair.
C2_BatchGrows ==
  (UploadDone /\ ~last.hist.failed) =>
     /\ last.hist.inserted = [i \in 1..Len(NonBlank(last.req.file.rows)) |-> TRUE]
     /\ Len(sentences) >= last.hist.base + Len(last.hist.inserted)

\* C2: the store step of a non-blank pair in which neither the embedding nor
\* the insert fails appends exactly the record (description, embedding,
\* resolution) to the table, after the pair's search put its entry into the
\* results, whatever the resolution and the matches are; and a finished
\* upload without such a failure has inserted one record per non-blank pair.
C2_Unconditional == C2_RowInserts /\ []C2_BatchGrows

C2_Witness ==
  \E t \in Threads :
    /\ pc[t] = "search"
    /\ idx[t] = 3
    /\ req[t].file.rows[2] = Pair(ServerCrash, EmptyText)
    /\ Len(results[t]) = 1
    /\ results[t][1].matches # << >>
    /\ calls = <<Call("embed_text", TRUE), Call("insert", TRUE)>>
    /\ hist[t].inserted = <<TRUE>>
    /\ Len(sentences) = 2
    /\ sentences[2] = Record(ServerCrash, EmptyText)

\* C3: a search response is a success (status 200) only if the embedding and
\* a SELECT succeeded: a failed embedding or a failed store query is
\* reported as a failure.
C3_FailurePropagates ==
  (last.req.op \in {"search", "search_v2"} /\ last.resp.status = 200) =>
     (Has(calls, Call("select", TRUE)) \/ Has(calls, Call("select_fallback", TRUE)))

\* C4: the result of a finished upload lists as processed only pairs whose
\* record was stored: it has one ordinary entry per successful insert.
C4_PerPairOutcome ==
  UploadDone =>
    Len(last.resp.body.results)
      = Len(SelectSeq(last.hist.inserted, LAMBDA stored : stored))

\* C5: the step of an upload at a pair whose description is empty or all
\* whitespace calls neither the embedder nor the store, adds no result entry,
\* sends no response and leaves the table as it is; it only moves on to the
\* next row.
C5_BlankSkipped ==
  [][ \A t \in Threads :
        (AtRow(t) /\ IsBlank(req[t].file.rows[idx[t]].description) /\ Moved(t))
        => /\ sentences' = sentences
           /\ calls' = << >>
           /\ last' = NoExchange
           /\ results'[t] = results[t]
           /\ hist'[t] = hist[t]
           /\ req'[t] = req[t]
           /\ pc'[t] = "search"
           /\ idx'[t] = idx[t] + 1 ]_vars

C5_Witness ==
  \E t \in Threads :
    /\ pc[t] = "search"
    /\ idx[t] = 2
    /\ req[t].file.rows[1].description = NbspText
    /\ results[t] = << >>
    /\ calls = << >>
    /\ last = NoExchange

DirectCallDone == last.req.op = "find_similar_problems"

\* C6: find_similar_problems with an empty or all-whitespace query returns
\* the empty list and calls neither the embedder nor the store.
C6_BlankQueryNoCalls ==
  (DirectCallDone /\ IsBlank(last.req.query)) =>
     (last.resp.status = "returned" /\ last.resp.body.matches = << >> /\ calls = << >>)

Passing(tbl, text, t) ==
  {i \in 1..Len(tbl) : cosine_similarity(tbl[i].embedding, encode(text)) >= t}
MatchOf(rec, text) ==
  [matched_text |-> rec.text, solution |-> rec.resolved_solution,
   similarity |-> cosine_similarity(rec.embedding, encode(text))]

\* C7: a returned match list has at most top_k matches, each of similarity at
\* least the threshold and each a different stored record (nothing is
\* padded); it is empty for top_k = 0; and when no query failed it has
\* exactly min(top_k, number of records passing the threshold) matches.
C7_KBounded ==
  (DirectCallDone /\ last.resp.status = "returned") =>
     LET m == last.resp.body.matches
         r == last.req
         pass == Passing(sentences, r.query, r.threshold)
     IN  /\ Len(m) <= r.top_k
         /\ \A j \in 1..Len(m) : m[j].similarity >= r.threshold
         /\ r.top_k = 0 => m = << >>
         /\ \E o \in [1..Len(m) -> pass] :
              /\ \A a, b \in 1..Len(m) : a # b => o[a] # o[b]
              /\ \A j \in 1..Len(m) : m[j] = MatchOf(sentences[o[j]], r.query)
         /\ (~Failed(calls) /\ Truthy(r.query))
              => Len(m) = Min(r.top_k, Cardinality(pass))

C7_Witness ==
  /\ DirectCallDone
  /\ last.resp.status = "returned"
  /\ ~Failed(calls)
  /\ last.req.top_k = 2
  /\ Len(sentences) = 2
  /\ Len(last.resp.body.matches) = 1

\* descending similarity, ties by insertion order
InsertionOrderRanking(tbl, text) ==
  CHOOSE o \in [1..Len(tbl) -> 1..Len(tbl)] :
    \A a, b \in 1..Len(tbl) : a < b =>
      LET sa == cosine_similarity(tbl[o[a]].embedding, encode(text))
          sb == cosine_similarity(tbl[o[b]].embedding, encode(text))
      IN  sa > sb \/ (sa = sb /\ o[a] < o[b])

\* C8: a returned match list (no call having failed) is the stored records
\* in descending similarity with ties in insertion order, cut to top_k and
\* filtered by the threshold.
C8_TiesByInsertion ==
  (/\ DirectCallDone
   /\ last.resp.status = "returned"
   /\ ~Failed(calls)
   /\ Truthy(last.req.query)) =>
     LET r == last.req
         o == InsertionOrderRanking(sentences, r.query)
         top == [j \in 1..Min(r.top_k, Len(o)) |-> MatchOf(sentences[o[j]], r.query)]
     IN  last.resp.body.matches = SelectSeq(top, LAMBDA m : m.similarity >= r.threshold)

Range(f) == {f[i] : i \in DOMAIN f}

\* C9: of two successive calls with the same query and top_k over the same
\* table, neither with a failed call, the one with the higher threshold
\* returns a subset of the other's matches.
C9_ThresholdMonotone ==
  (/\ DirectCallDone
   /\ prev[1].req.op = "find_similar_problems"
   /\ last.resp.status = "returned" /\ prev[1].resp.status = "returned"
   /\ ~Failed(calls) /\ ~Failed(prev[2])
   /\ last.req.threshold > prev[1].req.threshold)
  => Range(last.resp.body.matches) \subseteq Range(prev[1].resp.body.matches)

\* C10: a step that answers a /search or /search-v2 request leaves the
\* sentences table unchanged, and every step leaves the existing rows as
\* they are (the table only grows).
C10_SearchReadOnly ==
  [][ /\ (last'.req.op \in {"search", "search_v2"} => sentences' = sentences)
      /\ IsPrefix(sentences, sentences') ]_vars

C10_Witness ==
  /\ last.req.op = "search"
  /\ last.resp.status = 200
  /\ Has(calls, Call("select_fallback", TRUE))
  /\ last.resp.body.matches # << >>
  /\ Len(sentences) = 2

====
